---- MODULE Spec2Model ----
(***************************************************************************)
(* Model of the LogDNA callback plugin for Ansible                         *)
(* (lib/ansible/plugins/callback/logdna.py): option resolution, task       *)
(* timing, event filtering, metadata assembly, safe formatting and the     *)
(* HTTP request handed to open_url.                                        *)
(*                                                                         *)
(* Python values are tagged records so that values of different Python     *)
(* types can be compared: equality of two tagged records is Python's ==    *)
(* for the types that occur here.                                          *)
(***************************************************************************)
EXTENDS Integers, Sequences, FiniteSets, TLC

(***************************************************************************)
(* Python values                                                           *)
(***************************************************************************)
PyNone == [t |-> "None"]
PyS(s) == [t |-> "str", s |-> s]
PyB(b) == [t |-> "bool", b |-> b]
PyN(n) == [t |-> "num", n |-> n]
PyL(l) == [t |-> "list", l |-> l]
PyD(d) == [t |-> "dict", d |-> d]
\* an ansible.playbook.role.Role object; str() of it is the role name
PyRole(name) == [t |-> "Role", name |-> name]

\* bool(v): Python truthiness, as used by `if v` and `not v`
Truthy(v) ==
    CASE v.t = "None" -> FALSE
      [] v.t = "str"  -> v.s # ""
      [] v.t = "bool" -> v.b
      [] v.t = "num"  -> v.n # 0
      [] v.t = "list" -> Len(v.l) > 0
      [] v.t = "dict" -> DOMAIN v.d # {}
      [] OTHER        -> TRUE

\* d.get(k, default) on a dict
Get(d, k, default) == IF k \in DOMAIN d.d THEN d.d[k] ELSE default

\* x in list_of_values
In(x, l) == \E i \in 1..Len(l) : l[i] = x

(***************************************************************************)
(* str methods                                                             *)
(***************************************************************************)
CharAt(s, i) == SubSeq(s, i, i)

HasChar(s, c) == \E i \in 1..Len(s) : CharAt(s, i) = c

StartsWith(s, p) == Len(s) >= Len(p) /\ SubSeq(s, 1, Len(p)) = p

\* index of the first occurrence of sub in s, 0 when there is none
Find(s, sub) ==
    LET hits == {i \in 1..(Len(s) - Len(sub) + 1) : SubSeq(s, i, i + Len(sub) - 1) = sub}
    IN  IF hits = {} THEN 0 ELSE CHOOSE i \in hits : \A j \in hits : i <= j

RECURSIVE Split(_, _)
\* s.split(sep)
Split(s, sep) ==
    LET i == Find(s, sep)
    IN  IF i = 0 THEN <<s>>
        ELSE <<SubSeq(s, 1, i - 1)>> \o Split(SubSeq(s, i + Len(sep), Len(s)), sep)

Upper == "ABCDEFGHIJKLMNOPQRSTUVWXYZ"
LowerLetters == "abcdefghijklmnopqrstuvwxyz"

LowerChar(c) ==
    LET i == Find(Upper, c) IN IF i = 0 THEN c ELSE CharAt(LowerLetters, i)

RECURSIVE Lower(_)
\* s.lower()
Lower(s) == IF s = "" THEN "" ELSE LowerChar(CharAt(s, 1)) \o Lower(SubSeq(s, 2, Len(s)))

IsSpace(c) == c \in {" ", "\t", "\n", "\r"}

RECURSIVE LStrip(_)
LStrip(s) ==
    IF s # "" /\ IsSpace(CharAt(s, 1)) THEN LStrip(SubSeq(s, 2, Len(s))) ELSE s

RECURSIVE RStrip(_)
RStrip(s) ==
    IF s # "" /\ IsSpace(CharAt(s, Len(s))) THEN RStrip(SubSeq(s, 1, Len(s) - 1)) ELSE s

\* s.strip()
Strip(s) == RStrip(LStrip(s))

RECURSIVE basename(_)
\* os.path.basename: what follows the last '/'
basename(p) ==
    LET i == Find(p, "/")
    IN  IF i = 0 THEN p ELSE basename(SubSeq(p, i + 1, Len(p)))

\* str(v) / format(v, '') for the values that reach the formatter and urlencode
Digits == "0123456789"
RECURSIVE NatStr(_)
NatStr(n) == IF n < 10 THEN CharAt(Digits, n + 1)
             ELSE NatStr(n \div 10) \o CharAt(Digits, (n % 10) + 1)

PyStrOf(v) ==
    CASE v.t = "None" -> "None"
      [] v.t = "str"  -> v.s
      [] v.t = "bool" -> IF v.b THEN "True" ELSE "False"
      [] v.t = "num"  -> NatStr(v.n)
      [] v.t = "Role" -> v.name
      [] OTHER        -> "<object>"

(***************************************************************************)
(* delete_empty_values                                                     *)
(***************************************************************************)
\* delete_empty_values without the recursion into members
delete_empty_values_shallow(d) ==
    IF d.t \notin {"dict", "list"} THEN d
    ELSE IF d.t = "list" THEN PyL(SelectSeq(d.l, Truthy))
    ELSE PyD([k \in {k \in DOMAIN d.d : Truthy(d.d[k])} |-> d.d[k]])

RECURSIVE delete_empty_values(_)
delete_empty_values(d) ==
    IF d.t \notin {"dict", "list"} THEN d
    ELSE IF d.t = "list"
    THEN PyL(SelectSeq([i \in 1..Len(d.l) |-> delete_empty_values(d.l[i])], Truthy))
    ELSE LET pruned == [k \in DOMAIN d.d |-> delete_empty_values(d.d[k])]
         IN  PyD([k \in {k \in DOMAIN d.d : Truthy(pruned[k])} |-> pruned[k]])

(***************************************************************************)
(* Host identity: get_local_hostname, get_hwaddr, get_ipaddr               *)
(***************************************************************************)
\* str(gethostname()).split('.local')[0]
get_local_hostname(sysname) == Split(sysname, ".local")[1]

HexDigits == "0123456789abcdef"
RECURSIVE HexPad(_, _)
\* "%0<width>x" % n
HexPad(n, width) ==
    IF width = 0 THEN ""
    ELSE HexPad(n \div 16, width - 1) \o CharAt(HexDigits, (n % 16) + 1)

RECURSIVE Join(_, _)
\* sep.join(parts)
Join(sep, parts) ==
    IF Len(parts) = 0 THEN ""
    ELSE IF Len(parts) = 1 THEN parts[1]
    ELSE parts[1] \o sep \o Join(sep, Tail(parts))

\* ":".join(mac[index:index + 2] for index in range(int(len(mac) / 2)))
get_hwaddr(node) ==
    LET mac == HexPad(node, 12)
    IN  Join(":", [k \in 1..(Len(mac) \div 2) |-> SubSeq(mac, k, k + 1)])

\* net describes what the resolver and the probe socket answer on this
\* machine: "" stands for the call raising
get_ipaddr(n) ==
    IF n.resolve # "" THEN n.resolve
    ELSE IF n.sock # "" THEN n.sock
    ELSE "127.0.0.1"

(***************************************************************************)
(* SafeFormat: string.Formatter with the get_field override                *)
(***************************************************************************)
NoError == "none"
FormatError == "Exception"       \* raised by SafeFormat.get_field
DeliveryError == "URLError"      \* raised by open_url

IsDigits(s) == s # "" /\ \A i \in 1..Len(s) : HasChar(Digits, CharAt(s, i))

\* get_field with the test for '(' left out
get_field_without_paren(field_name, kwargs) ==
    IF HasChar(field_name, ".") \/ HasChar(field_name, "[")
    THEN [err |-> FormatError, obj |-> PyNone]
    ELSE IF field_name = "" \/ IsDigits(field_name)
    THEN [err |-> "IndexError", obj |-> PyNone]
    ELSE IF field_name \in DOMAIN kwargs
    THEN [err |-> NoError, obj |-> kwargs[field_name]]
    ELSE [err |-> "KeyError", obj |-> PyNone]

\* SafeFormat.get_field followed by Formatter.get_field / get_value
get_field(field_name, kwargs) ==
    IF HasChar(field_name, ".") \/ HasChar(field_name, "[") \/ HasChar(field_name, "(")
    THEN [err |-> FormatError, obj |-> PyNone]
    ELSE IF field_name = "" \/ IsDigits(field_name)
    THEN [err |-> "IndexError", obj |-> PyNone]      \* positional: args is empty
    ELSE IF field_name \in DOMAIN kwargs
    THEN [err |-> NoError, obj |-> kwargs[field_name]]
    ELSE [err |-> "KeyError", obj |-> PyNone]

RECURSIVE parse(_)
\* Formatter.parse: the (literal_text, field_name) pairs of a format string
\* made of literal text and {field} placeholders (no conversion, no format
\* spec, no brace escapes); field_name is None after the last literal, and
\* a '{' without its '}' is the ValueError marker
parse(fmt) ==
    LET i == Find(fmt, "{")
    IN  IF i = 0
        THEN IF fmt = "" THEN <<>> ELSE <<[literal_text |-> fmt, field_name |-> PyNone]>>
        ELSE LET rest == SubSeq(fmt, i + 1, Len(fmt))
                 j == Find(rest, "}")
             IN  IF j = 0 THEN <<[literal_text |-> "", field_name |-> PyB(FALSE)]>>
                 ELSE <<[literal_text |-> SubSeq(fmt, 1, i - 1),
                         field_name |-> PyS(SubSeq(rest, 1, j - 1))]>>
                      \o parse(SubSeq(rest, j + 1, Len(rest)))

RECURSIVE _vformat(_, _)
\* Formatter._vformat over the parsed format string
_vformat(parsed, kwargs) ==
    IF Len(parsed) = 0 THEN [err |-> NoError, out |-> ""]
    ELSE LET head == Head(parsed)
         IN  IF head.field_name = PyB(FALSE) THEN [err |-> "ValueError", out |-> ""]
             ELSE IF head.field_name = PyNone
             THEN LET tail == _vformat(Tail(parsed), kwargs)
                  IN  IF tail.err # NoError THEN tail
                      ELSE [err |-> NoError, out |-> head.literal_text \o tail.out]
             ELSE LET f == get_field(head.field_name.s, kwargs)
                  IN  IF f.err # NoError THEN [err |-> f.err, out |-> ""]
                      ELSE LET tail == _vformat(Tail(parsed), kwargs)
                           IN  IF tail.err # NoError THEN tail
                               ELSE [err |-> NoError,
                                     out |-> head.literal_text \o PyStrOf(f.obj) \o tail.out]

DefaultFormat ==
    "status={status} action={action} changed={changed} play={playbook} role={role} host={host} name={name}"

\* values of the logdna_log_format option
FormatOptions == {"{status}: {name} ", "{host.name}", "x {host[0]}", "{name(}",
                  "{foo} {host.name}", "{status} {uuid}"}

\* the parse of every format string in use, computed once
RECURSIVE ParseAll(_)
ParseAll(fmts) ==
    IF fmts = {} THEN <<>>
    ELSE LET f == CHOOSE x \in fmts : TRUE
         IN  (f :> parse(f)) @@ ParseAll(fmts \ {f})

Parsed == ParseAll(FormatOptions \cup {DefaultFormat})

\* SafeFormat().format(fmt, **kwargs)
vformat(fmt, kwargs) ==
    _vformat(IF fmt \in DOMAIN Parsed THEN Parsed[fmt] ELSE parse(fmt), kwargs)

(***************************************************************************)
(* time                                                                    *)
(***************************************************************************)
Pad2(n) == IF n < 10 THEN "0" \o NatStr(n) ELSE NatStr(n)

\* datetime.utcnow().strftime('%Y-%m-%dT%H:%M:%SZ'), the clock counting the
\* seconds of 2021-01-01
IsoFormat(t) ==
    "2021-01-01T" \o Pad2(t \div 3600) \o ":" \o Pad2((t % 3600) \div 60) \o ":"
        \o Pad2(t % 60) \o "Z"

\* time(): epoch seconds of 2021-01-01T00:00:00Z plus the clock
EpochBase == 1609459200
EpochSeconds(t) == EpochBase + t

(***************************************************************************)
(* urlencode                                                               *)
(***************************************************************************)
QuoteChar(c) ==
    CASE c = " " -> "+"
      [] c = "," -> "%2C"
      [] c = "/" -> "%2F"
      [] c = ":" -> "%3A"
      [] c = "&" -> "%26"
      [] c = "=" -> "%3D"
      [] OTHER   -> c

RECURSIVE quote_plus(_)
quote_plus(s) == IF s = "" THEN "" ELSE QuoteChar(CharAt(s, 1)) \o quote_plus(SubSeq(s, 2, Len(s)))

\* urlencode(request_params): params is the sequence of (key, value) pairs
\* in insertion order
urlencode(params) ==
    Join("&", [k \in 1..Len(params) |->
                  quote_plus(params[k][1]) \o "=" \o quote_plus(PyStrOf(params[k][2]))])

(***************************************************************************)
(* LogDNAHTTPIngestEndpoint.send_logdna                                    *)
(*                                                                         *)
(* self is the endpoint object, c the conf_* values, ev the result object  *)
(* (task fields, role, uuid, host name, result payload), t the clock and   *)
(* http what open_url does.  The value is the endpoint object afterwards,  *)
(* the exception that escapes (NoError when none) and the request handed   *)
(* to open_url, when it was called.                                        *)
(***************************************************************************)
NoRequest == [uri |-> "", params |-> <<>>, body |-> PyNone, url_username |-> PyNone,
              timeout |-> PyNone, method |-> "", validate_certs |-> FALSE]

loglevels == [OK |-> "INFO", SKIPPED |-> "WARN", FAILED |-> "ERROR", UNREACHABLE |-> "WARN"]

Raise(self, e) == [self |-> self, err |-> e, called |-> FALSE, request |-> NoRequest]

\* lines 282-286: the timestamp of the record
Timestamp(result, t) ==
    LET facts == Get(result, "ansible_facts", PyNone)
    IN  IF Truthy(facts)
        THEN IF facts.t # "dict" THEN [err |-> "AttributeError", ts |-> PyNone]
             ELSE LET dt == Get(facts, "ansible_date_time", PyNone)
                  IN  IF dt.t # "dict" THEN [err |-> "AttributeError", ts |-> PyNone]
                      ELSE [err |-> NoError, ts |-> Get(dt, "iso8601", PyNone)]
        ELSE [err |-> NoError, ts |-> PyS(IsoFormat(t))]

\* Meta with the check-mode flag and the version of the event's own task
\* arguments in place of the values kept on the endpoint object
Meta_event_flags(self, state, ev, ansible_role, exectime) ==
    delete_empty_values(PyD([
        ansible_changed        |-> Get(ev.result, "changed", PyNone),
        ansible_check_mode     |-> PyB(Truthy(Get(ev.task_fields.d["args"],
                                                  "_ansible_check_mode", PyNone))),
        ansible_host           |-> PyS(ev.host),
        ansible_playbook       |-> PyS(self.ansible_playbook),
        ansible_result         |-> ev.result,
        ansible_role           |-> ansible_role,
        ansible_session        |-> PyS(self.session),
        ansible_status         |-> PyS(state),
        ansible_task           |-> ev.task_fields,
        ansible_version        |-> Get(ev.task_fields.d["args"], "_ansible_version", PyS("")),
        ansible_execution_time |-> PyN(exectime),
        system_host            |-> PyS(self.host),
        system_ip              |-> PyS(self.ip_address),
        system_user            |-> PyS(self.user),
        uuid                   |-> PyS(ev.uuid)]))

\* lines 292-308: the metadata mapping
Meta(self, state, ev, ansible_role, exectime) ==
    delete_empty_values(PyD([
        ansible_changed        |-> Get(ev.result, "changed", PyNone),
        ansible_check_mode     |-> PyB(self.ansible_check_mode),
        ansible_host           |-> PyS(ev.host),
        ansible_playbook       |-> PyS(self.ansible_playbook),
        ansible_result         |-> ev.result,
        ansible_role           |-> ansible_role,
        ansible_session        |-> PyS(self.session),
        ansible_status         |-> PyS(state),
        ansible_task           |-> ev.task_fields,
        ansible_version        |-> self.ansible_version,
        ansible_execution_time |-> PyN(exectime),
        system_host            |-> PyS(self.host),
        system_ip              |-> PyS(self.ip_address),
        system_user            |-> PyS(self.user),
        uuid                   |-> PyS(ev.uuid)]))

\* lines 350-375: the JSON document
Logline(c, state, log_message, timestamp, meta) ==
    LET base  == [line |-> PyS(log_message), timestamp |-> timestamp,
                  app |-> c.appname, meta |-> meta]
        keys  == {"line", "timestamp", "app", "meta"}
                 \cup (IF ~Truthy(c.disable_loglevel) THEN {"level"} ELSE {})
                 \cup (IF Truthy(c.ip_addr) THEN {"ip"} ELSE {})
                 \cup (IF Truthy(c.mac_addr) THEN {"mac"} ELSE {})
        level == IF state \in DOMAIN loglevels THEN loglevels[state] ELSE "UNKNOWN"
    IN  PyD([lines |-> PyL(<<PyD([k \in keys |->
                CASE k = "level" -> PyS(level)
                  [] k = "ip"    -> c.ip_addr
                  [] k = "mac"   -> c.mac_addr
                  [] OTHER       -> base[k]])>>)])

send_logdna(self, c, state, ev, exectime, t, http) ==
    IF "args" \notin DOMAIN ev.task_fields.d THEN Raise(self, "KeyError")
    ELSE
    LET args == ev.task_fields.d["args"]
        self1 == [self EXCEPT
                    !.ansible_check_mode =
                        IF Truthy(Get(args, "_ansible_check_mode", PyNone)) THEN TRUE ELSE @,
                    !.ansible_version =
                        IF Truthy(Get(args, "_ansible_version", PyNone))
                        THEN Get(args, "_ansible_version", PyNone) ELSE @]
        ansible_role == IF Truthy(ev.role) THEN PyS(PyStrOf(ev.role)) ELSE PyNone
        stamp == Timestamp(ev.result, t)
        conf_hostname == IF ~Truthy(c.hostname) THEN PyS(ev.host) ELSE c.hostname
        meta == Meta(self1, state, ev, ansible_role, exectime)
        name0 == Get(ev.task_fields, "name", PyNone)
        kwargs == [action   |-> Get(Get(meta, "ansible_task", PyD(<<>>)), "action", PyNone),
                   changed  |-> Get(meta, "ansible_changed", PyNone),
                   host     |-> Get(meta, "ansible_host", PyNone),
                   playbook |-> Get(meta, "ansible_playbook", PyNone),
                   role     |-> Get(meta, "ansible_role", PyNone),
                   status   |-> Get(meta, "ansible_status", PyNone),
                   name     |-> IF ~Truthy(name0) THEN PyS("") ELSE name0]
        fmt == IF Truthy(c.log_fmt) THEN c.log_fmt.s ELSE DefaultFormat
        rendered == vformat(fmt, kwargs)
        params == << <<"hostname", conf_hostname>>, <<"now", PyN(EpochSeconds(t))>> >>
                  \o (IF Truthy(c.tags) THEN << <<"tags", c.tags>> >> ELSE <<>>)
        request == [uri |-> "https://" \o PyStrOf(c.host) \o PyStrOf(c.endpoint) \o "?"
                              \o urlencode(params),
                    params |-> params,
                    body |-> Logline(c, state, Strip(rendered.out), stamp.ts, meta),
                    url_username |-> c.ingestion_key,
                    timeout |-> c.timeout,
                    method |-> "POST",
                    validate_certs |-> TRUE]
    IN  IF stamp.err # NoError THEN Raise(self1, stamp.err)
        ELSE IF rendered.err # NoError THEN Raise(self1, rendered.err)
        ELSE [self |-> self1,
              err |-> IF http = "ok" THEN NoError ELSE DeliveryError,
              called |-> TRUE,
              request |-> request]

(***************************************************************************)
(* The environment: the machine the plugin runs on, the options the        *)
(* engine resolved, and the tasks, hosts and result payloads it reports    *)
(***************************************************************************)
MaxClock == 1          \* the clock runs over 0..MaxClock

SysName == "runner.local"       \* gethostname()
SysUser == "deploy"             \* getuser()
SysNode == 11259375             \* getnode()
SessionId == "5e55-10n"         \* str(uuid4())

\* what gethostbyname and the probe socket answer ("" = the call raises)
NetEnvs == {[resolve |-> "", sock |-> "10.0.0.5"]}

OptionNames == {"logdna_appname", "logdna_endpoint", "logdna_disable_loglevels",
                "logdna_host", "logdna_hostname", "logdna_ignore_status_names",
                "logdna_ignore_action_names", "conf_ignore_role_names",
                "conf_ignore_play_names", "logdna_ingestion_key", "logdna_ip_address",
                "logdna_log_format", "logdna_mac_address", "logdna_tags",
                "logdna_timeout", "logdna_use_target_host_for_hostname"}

NoOptions == [n \in OptionNames |-> PyNone]

With(o, n, v) == [o EXCEPT ![n] = v]

\* option sets: the ingestion key alone, then one group of options at a time
KeyOnly == With(NoOptions, "logdna_ingestion_key", PyS("k3y"))

HostnameOptionSets ==
    {With(With(KeyOnly, "logdna_use_target_host_for_hostname", u), "logdna_hostname", h) :
        u \in {PyNone, PyB(TRUE)}, h \in {PyNone, PyS("loghost")}}

IgnoreOptionSets ==
    {KeyOnly,
     With(KeyOnly, "logdna_ignore_status_names", PyS("SKIPPED,Failed")),
     With(KeyOnly, "logdna_ignore_action_names", PyS("setup,debug")),
     With(KeyOnly, "conf_ignore_role_names", PyS("nginx")),
     With(KeyOnly, "conf_ignore_play_names", PyS("site.yml"))}

IdentityOptionSets ==
    {With(With(KeyOnly, "logdna_ip_address", i), "logdna_mac_address", m) :
        i \in {PyNone, PyS("disabled"), PyS("10.1.2.3")},
        m \in {PyNone, PyS("disabled"), PyS("de:ad:be:ef:00:01")}}

FormatOptionSets ==
    {With(KeyOnly, "logdna_log_format", PyS(f)) : f \in FormatOptions}
    \cup {With(With(KeyOnly, "logdna_log_format", PyS("{host.name}")),
               "logdna_ignore_action_names", PyS("debug"))}

OtherOptionSets ==
    {With(With(With(KeyOnly, "logdna_disable_loglevels", PyB(TRUE)),
               "logdna_tags", PyS("prod,web")), "logdna_appname", PyS("deploys")),
     With(KeyOnly, "logdna_timeout", PyN(30))}

\* the option sets of the specification Spec
OptionSets ==
    {NoOptions, With(NoOptions, "logdna_hostname", PyS("loghost"))}
    \cup HostnameOptionSets \cup OtherOptionSets

\* tasks: _uuid, _role and the task fields the engine hands over
Tasks ==
    {[uuid |-> "u1", role |-> PyRole("nginx"),
      task_fields |-> PyD([action |-> PyS("shell"), name |-> PyS("Install nginx"),
                           args |-> PyD(("_ansible_check_mode" :> PyB(TRUE))
                                        @@ ("_ansible_version" :> PyS("2.9.6")))])],
     [uuid |-> "u2", role |-> PyNone,
      task_fields |-> PyD([action |-> PyS("debug"), name |-> PyS(""),
                           args |-> PyD(<<>>)])]}

Hosts == {"web01"}

PlaybookFiles == {"playbooks/site.yml"}

FactsTime == "2021-01-01T00:00:00Z"

\* result payloads reported with status OK: no facts (and nested empty
\* values), facts with the timestamp, facts without ansible_date_time,
\* ansible_date_time without iso8601
OkResults ==
    {PyD([changed |-> PyB(TRUE), rc |-> PyN(0), stdout |-> PyS(""),
          results |-> PyL(<<PyD(<<>>), PyL(<<PyS("")>>), PyNone,
                            PyD([item |-> PyS(""), warnings |-> PyL(<<>>)]),
                            PyD([item |-> PyS("a")])>>)]),
     PyD([changed |-> PyB(FALSE),
          ansible_facts |-> PyD([ansible_date_time |-> PyD([iso8601 |-> PyS(FactsTime)])])]),
     PyD([ansible_facts |-> PyD([ansible_distribution |-> PyS("Debian")])]),
     PyD([ansible_facts |-> PyD([ansible_date_time |-> PyD([epoch |-> PyS("1609459200")])])])}

\* (status, result payload) pairs the engine reports
Reports ==
    {<<"OK", r>> : r \in OkResults}
    \cup {<<"FAILED", PyD([changed |-> PyB(FALSE), failed |-> PyB(TRUE), msg |-> PyS("boom"),
                           ansible_facts |-> PyD(<<>>)])>>,
          <<"SKIPPED", PyD([changed |-> PyB(FALSE), skipped |-> PyB(TRUE),
                            skip_reason |-> PyS("")])>>,
          <<"UNREACHABLE", PyD([unreachable |-> PyB(TRUE), msg |-> PyS("ssh timeout")])>>}

HttpOutcomes == {"ok", "fail"}

(***************************************************************************)
(* State                                                                   *)
(***************************************************************************)
VARIABLES
    opts,             \* the resolved options get_option answers from
    net,              \* the resolver/socket behaviour of the machine
    pc,               \* "constructed" until set_options ran, then "ready"
    conf,             \* the conf_* attributes of the CallbackModule
    disabled,         \* CallbackModule.disabled
    warnings,         \* number of _display.warning calls
    dropped,          \* the engine has skipped a callback of the disabled plugin
    start_datetimes,  \* CallbackModule.start_datetimes
    cb,               \* CallbackModule.logdna_callback (LogDNAHTTPIngestEndpoint)
    now,              \* the clock
    outcome           \* what the terminal event just handled did (none after any other step)

vars == <<opts, net, pc, conf, disabled, warnings, dropped, start_datetimes, cb, now, outcome>>

NoConf == [appname |-> PyNone, endpoint |-> PyNone, disable_loglevel |-> PyNone,
           host |-> PyNone, timeout |-> PyNone, use_target_host_for_hostnmae |-> PyNone,
           hostname |-> PyNone, ignore_statuses |-> <<>>, ignore_actions |-> <<>>,
           ignore_roles |-> <<>>, ignore_plays |-> <<>>, ingestion_key |-> PyNone,
           ip_addr |-> PyNone, log_fmt |-> PyNone, mac_addr |-> PyNone, tags |-> PyNone]

NoEvent == [uuid |-> "", role |-> PyNone, task_fields |-> PyNone, host |-> "",
            result |-> PyNone]

NoOutcome == [kind |-> "none", status |-> "", ev |-> NoEvent, at |-> 0,
              started |-> FALSE, play |-> "", err |-> NoError, called |-> FALSE,
              request |-> NoRequest]

\* LogDNAHTTPIngestEndpoint.__init__ and CallbackModule.__init__
InitWith(optionSets) ==
    /\ opts \in optionSets
    /\ net \in NetEnvs
    /\ pc = "constructed"
    /\ conf = NoConf
    /\ disabled = FALSE
    /\ warnings = 0
    /\ dropped = FALSE
    /\ start_datetimes = <<>>
    /\ cb = [ansible_check_mode |-> FALSE, ansible_playbook |-> "",
             ansible_version |-> PyS(""), session |-> SessionId,
             host |-> get_local_hostname(SysName), ip_address |-> get_ipaddr(net),
             user |-> SysUser]
    /\ now = 0
    /\ outcome = NoOutcome

Init == InitWith(OptionSets)

(***************************************************************************)
(* CallbackModule.set_options                                              *)
(***************************************************************************)
\* CallbackModule.defaults
defaults == [logdna_appname |-> PyS("ansible"), logdna_endpoint |-> PyS("/logs/ingest"),
             logdna_host |-> PyS("logs.logdna.com"), logdna_timeout |-> PyN(5)]

get_option(name) == opts[name]

\* a comma-separated option as the list of its entries
SplitList(s) == LET parts == Split(s, ",") IN [i \in 1..Len(parts) |-> PyS(parts[i])]

\* the sentinel test as an equality with "disable"
IsDisableSentinel_exact(o) == Lower(PyStrOf(o)) = "disable"

\* the "disable" sentinel of the address overrides
IsDisableSentinel(o) == StartsWith(Lower(PyStrOf(o)), "disable")

ResolvedConf ==
    [appname  |-> IF get_option("logdna_appname") = PyNone
                  THEN defaults.logdna_appname ELSE get_option("logdna_appname"),
     endpoint |-> IF get_option("logdna_endpoint") = PyNone
                  THEN defaults.logdna_endpoint ELSE get_option("logdna_endpoint"),
     disable_loglevel |-> get_option("logdna_disable_loglevels"),
     host     |-> IF get_option("logdna_host") = PyNone
                  THEN defaults.logdna_host ELSE get_option("logdna_host"),
     timeout  |-> IF ~Truthy(get_option("logdna_timeout"))
                  THEN defaults.logdna_timeout ELSE get_option("logdna_timeout"),
     use_target_host_for_hostnmae |-> get_option("logdna_use_target_host_for_hostname"),
     hostname |-> IF ~Truthy(get_option("logdna_use_target_host_for_hostname"))
                  THEN PyS(get_local_hostname(SysName)) ELSE get_option("logdna_hostname"),
     ignore_statuses |-> IF Truthy(get_option("logdna_ignore_status_names"))
                         THEN SplitList(Lower(get_option("logdna_ignore_status_names").s))
                         ELSE <<>>,
     ignore_actions  |-> IF Truthy(get_option("logdna_ignore_action_names"))
                         THEN SplitList(get_option("logdna_ignore_action_names").s)
                         ELSE <<>>,
     ignore_roles    |-> IF Truthy(get_option("conf_ignore_role_names"))
                         THEN SplitList(get_option("conf_ignore_role_names").s)
                         ELSE <<>>,
     ignore_plays    |-> IF Truthy(get_option("conf_ignore_play_names"))
                         THEN SplitList(get_option("conf_ignore_play_names").s)
                         ELSE <<>>,
     ingestion_key |-> get_option("logdna_ingestion_key"),
     ip_addr  |-> IF get_option("logdna_ip_address") = PyNone THEN PyS(get_ipaddr(net))
                  ELSE IF IsDisableSentinel(get_option("logdna_ip_address")) THEN PyNone
                  ELSE get_option("logdna_ip_address"),
     log_fmt  |-> get_option("logdna_log_format"),
     mac_addr |-> IF get_option("logdna_mac_address") = PyNone THEN PyS(get_hwaddr(SysNode))
                  ELSE IF IsDisableSentinel(get_option("logdna_mac_address")) THEN PyNone
                  ELSE get_option("logdna_mac_address"),
     tags     |-> get_option("logdna_tags")]

\* lines 523-529: without an ingestion key the plugin disables itself and warns
KeyMissing == get_option("logdna_ingestion_key") = PyNone

\* set_options that warns but leaves the plugin enabled
set_options_without_disable ==
    /\ pc = "constructed"
    /\ pc' = "ready"
    /\ conf' = ResolvedConf
    /\ disabled' = disabled
    /\ warnings' = IF KeyMissing THEN warnings + 1 ELSE warnings
    /\ UNCHANGED <<opts, net, dropped, start_datetimes, cb, now, outcome>>

set_options ==
    /\ pc = "constructed"
    /\ pc' = "ready"
    /\ conf' = ResolvedConf
    /\ disabled' = IF KeyMissing THEN TRUE ELSE disabled
    /\ warnings' = IF KeyMissing THEN warnings + 1 ELSE warnings
    /\ UNCHANGED <<opts, net, dropped, start_datetimes, cb, now, outcome>>

(***************************************************************************)
(* The engine calls the v2_* methods of a loaded callback plugin once its  *)
(* options are set, and skips a plugin whose `disabled` attribute is set.  *)
(***************************************************************************)
Dispatched == pc = "ready" /\ ~disabled

\* a callback the engine did not deliver because the plugin is disabled
SkippedCallback ==
    /\ pc = "ready"
    /\ disabled
    /\ dropped' = TRUE
    /\ UNCHANGED <<opts, net, pc, conf, disabled, warnings, start_datetimes, cb, now, outcome>>

\* time passes between callbacks
Tick ==
    /\ now < MaxClock
    /\ now' = now + 1
    /\ outcome' = NoOutcome
    /\ UNCHANGED <<opts, net, pc, conf, disabled, warnings, dropped, start_datetimes, cb>>

(***************************************************************************)
(* Callbacks                                                               *)
(***************************************************************************)
RecordStart(uuid) ==
    start_datetimes' = [u \in DOMAIN start_datetimes \cup {uuid} |->
                            IF u = uuid THEN now ELSE start_datetimes[u]]

v2_playbook_on_handler_task_start(task) ==
    /\ Dispatched
    /\ RecordStart(task.uuid)
    /\ outcome' = NoOutcome
    /\ UNCHANGED <<opts, net, pc, conf, disabled, warnings, dropped, cb, now>>

v2_playbook_on_start(file_name) ==
    /\ Dispatched
    /\ cb' = [cb EXCEPT !.ansible_playbook = basename(file_name)]
    /\ outcome' = NoOutcome
    /\ UNCHANGED <<opts, net, pc, conf, disabled, warnings, dropped, start_datetimes, now>>

v2_playbook_on_task_start(task) ==
    /\ Dispatched
    /\ RecordStart(task.uuid)
    /\ outcome' = NoOutcome
    /\ UNCHANGED <<opts, net, pc, conf, disabled, warnings, dropped, cb, now>>

\* lines 441-447: the ignore-list test of _handle_event
Ignored(status, ev) ==
    \/ In(Get(ev.task_fields, "action", PyNone), conf.ignore_actions)
    \/ In(ev.role, conf.ignore_roles)
    \/ In(PyS(cb.ansible_playbook), conf.ignore_plays)
    \/ In(PyS(Lower(status)), conf.ignore_statuses)

\* Deliver with an elapsed time of 0 for a task without a recorded start
Deliver_default_start(status, ev, http) ==
    send_logdna(cb, conf, status, ev,
                IF ev.uuid \in DOMAIN start_datetimes THEN now - start_datetimes[ev.uuid] ELSE 0,
                now, http)

\* _execution_timer and send_logdna, for an event that is not ignored
Deliver(status, ev, http) ==
    IF ev.uuid \notin DOMAIN start_datetimes THEN Raise(cb, "KeyError")
    ELSE send_logdna(cb, conf, status, ev, now - start_datetimes[ev.uuid], now, http)

_handle_event(status, ev, http) ==
    \E r \in {IF Ignored(status, ev)
              THEN [self |-> cb, err |-> NoError, called |-> FALSE, request |-> NoRequest,
                    kind |-> "ignored"]
              ELSE LET d == Deliver(status, ev, http)
                   IN  [self |-> d.self, err |-> d.err, called |-> d.called,
                        request |-> d.request,
                        kind |-> IF d.err # NoError THEN "raised" ELSE "sent"]} :
        /\ cb' = r.self
        /\ outcome' = [kind |-> r.kind, status |-> status, ev |-> ev, at |-> now,
                       started |-> ev.uuid \in DOMAIN start_datetimes,
                       play |-> cb.ansible_playbook,
                       err |-> r.err, called |-> r.called, request |-> r.request]
        /\ UNCHANGED <<opts, net, pc, conf, disabled, warnings, dropped, start_datetimes, now>>

\* the result object of a terminal event
Result(task, host, payload) ==
    [uuid |-> task.uuid, role |-> task.role, task_fields |-> task.task_fields,
     host |-> host, result |-> payload]

v2_runner_on_failed(ev, http) == Dispatched /\ _handle_event("FAILED", ev, http)

v2_runner_on_ok(ev, http) == Dispatched /\ _handle_event("OK", ev, http)

v2_runner_on_skipped(ev, http) == Dispatched /\ _handle_event("SKIPPED", ev, http)

v2_runner_on_unreachable(ev, http) == Dispatched /\ _handle_event("UNREACHABLE", ev, http)

PayloadsOf(status) == {rep[2] : rep \in {x \in Reports : x[1] = status}}

ResultsOf(status) ==
    {Result(task, host, payload) :
        task \in Tasks, host \in Hosts, payload \in PayloadsOf(status)}

FailedResults == ResultsOf("FAILED")
OkEvents == ResultsOf("OK")
SkippedResults == ResultsOf("SKIPPED")
UnreachableResults == ResultsOf("UNREACHABLE")

Next ==
    \/ set_options
    \/ SkippedCallback
    \/ Tick
    \/ \E file_name \in PlaybookFiles : v2_playbook_on_start(file_name)
    \/ \E task \in Tasks : v2_playbook_on_task_start(task)
    \/ \E task \in Tasks : v2_playbook_on_handler_task_start(task)
    \/ \E ev \in FailedResults, http \in HttpOutcomes : v2_runner_on_failed(ev, http)
    \/ \E ev \in OkEvents, http \in HttpOutcomes : v2_runner_on_ok(ev, http)
    \/ \E ev \in SkippedResults, http \in HttpOutcomes : v2_runner_on_skipped(ev, http)
    \/ \E ev \in UnreachableResults, http \in HttpOutcomes :
          v2_runner_on_unreachable(ev, http)

Spec == Init /\ [][Next]_vars

\* the same program under the option sets of the ignore-lists, of the log
\* format and of the address overrides
SpecIgnore == InitWith({NoOptions} \cup IgnoreOptionSets) /\ [][Next]_vars
SpecFormat == InitWith({NoOptions, KeyOnly} \cup FormatOptionSets) /\ [][Next]_vars
SpecIdentity == InitWith({NoOptions} \cup IdentityOptionSets) /\ [][Next]_vars

\* a third task, reporting another engine version and no check mode
StickyTask ==
    [uuid |-> "u3", role |-> PyNone,
     task_fields |-> PyD([action |-> PyS("command"), name |-> PyS("Upgrade"),
                          args |-> PyD(("_ansible_check_mode" :> PyB(FALSE))
                                       @@ ("_ansible_version" :> PyS("2.10.0")))])]

StickyResultsOf(status) ==
    {Result(StickyTask, host, payload) : host \in Hosts, payload \in PayloadsOf(status)}

\* the callbacks of Next, and those of the third task
NextSticky ==
    \/ Next
    \/ v2_playbook_on_task_start(StickyTask)
    \/ v2_playbook_on_handler_task_start(StickyTask)
    \/ \E ev \in StickyResultsOf("FAILED"), http \in HttpOutcomes : v2_runner_on_failed(ev, http)
    \/ \E ev \in StickyResultsOf("OK"), http \in HttpOutcomes : v2_runner_on_ok(ev, http)
    \/ \E ev \in StickyResultsOf("SKIPPED"), http \in HttpOutcomes :
          v2_runner_on_skipped(ev, http)
    \/ \E ev \in StickyResultsOf("UNREACHABLE"), http \in HttpOutcomes :
          v2_runner_on_unreachable(ev, http)

\* the same program with three tasks, under the ingestion key alone
SpecSticky == InitWith({NoOptions, KeyOnly}) /\ [][NextSticky]_vars

TypeOK == pc \in {"constructed", "ready"} /\ now \in 0..MaxClock

(***************************************************************************)
(* Properties                                                              *)
(***************************************************************************)
\* the last callback was a terminal event
Handled == outcome.kind # "none"

\* the last terminal event was not suppressed by an ignore-list
NotIgnored == outcome.kind \in {"raised", "sent"}

\* the record of the request of the last terminal event
SentLine == outcome.request.body.d["lines"].l[1]

SentMeta == SentLine.d["meta"]

\* the hostname parameter of the request of the last terminal event
SentHostname == outcome.request.params[1][2]

\* the payload carries facts -> date_time -> iso8601
HasFactsTime(result) ==
    /\ "ansible_facts" \in DOMAIN result.d
    /\ result.d["ansible_facts"].t = "dict"
    /\ "ansible_date_time" \in DOMAIN result.d["ansible_facts"].d
    /\ result.d["ansible_facts"].d["ansible_date_time"].t = "dict"
    /\ "iso8601" \in DOMAIN result.d["ansible_facts"].d["ansible_date_time"].d

FactsTimeOf(result) == result.d["ansible_facts"].d["ansible_date_time"].d["iso8601"]

\* the payload has no facts, empty facts, or facts with an ansible_date_time mapping
FactsWellFormed(result) ==
    \/ "ansible_facts" \notin DOMAIN result.d
    \/ ~Truthy(result.d["ansible_facts"])
    \/ /\ result.d["ansible_facts"].t = "dict"
       /\ "ansible_date_time" \in DOMAIN result.d["ansible_facts"].d
       /\ result.d["ansible_facts"].d["ansible_date_time"].t = "dict"

SuppliedFields == {"action", "changed", "host", "playbook", "role", "status", "name"}

HasForbiddenChar(name) == HasChar(name, ".") \/ HasChar(name, "[") \/ HasChar(name, "(")

\* positions of the placeholders of a format string
Placeholders(fmt) == {k \in 1..Len(Parsed[fmt]) : Parsed[fmt][k].field_name.t = "str"}

FieldAt(fmt, k) == Parsed[fmt][k].field_name.s

\* the format string has a placeholder with '.', '[' or '('
HasForbiddenField(fmt) == \E k \in Placeholders(fmt) : HasForbiddenChar(FieldAt(fmt, k))

\* the format string has a placeholder that names no supplied field, and no
\* placeholder with '.', '[' or '('
HasUnknownField(fmt) ==
    /\ \E k \in Placeholders(fmt) : FieldAt(fmt, k) \notin SuppliedFields
    /\ ~HasForbiddenField(fmt)

\* no placeholder with an unknown name comes before the first one with
\* '.', '[' or '('
ForbiddenFieldFirst(fmt) ==
    \E k \in Placeholders(fmt) :
        /\ HasForbiddenChar(FieldAt(fmt, k))
        /\ \A j \in Placeholders(fmt) : j < k => FieldAt(fmt, j) \in SuppliedFields

CustomFormat == Truthy(conf.log_fmt)

\* C1 (as claimed): a terminal event whose action, role name, playbook or
\* lower-cased status is an entry of the corresponding ignore-list issues no
\* HTTP POST.
C1_IgnoredEventNotPosted ==
    (/\ Handled
     /\ \/ In(Get(outcome.ev.task_fields, "action", PyNone), conf.ignore_actions)
        \/ (outcome.ev.role # PyNone /\ In(PyS(PyStrOf(outcome.ev.role)), conf.ignore_roles))
        \/ In(PyS(outcome.play), conf.ignore_plays)
        \/ In(PyS(Lower(outcome.status)), conf.ignore_statuses))
    => ~outcome.called

\* C2: without an ingestion key no HTTP request is ever issued, and the
\* plugin has warned exactly once from set_options on (never before, never
\* again).
C2_NoKeyNoRequest ==
    KeyMissing =>
        /\ ~outcome.called
        /\ outcome = NoOutcome
        /\ warnings = (IF pc = "ready" THEN 1 ELSE 0)
        /\ (pc = "ready" => disabled)

C2_Witness == KeyMissing /\ pc = "ready" /\ dropped /\ warnings = 1 /\ ~outcome.called

RECURSIVE LenientRender(_, _)
LenientRender(parsed, kwargs) ==
    IF Len(parsed) = 0 THEN ""
    ELSE Head(parsed).literal_text
         \o (IF Head(parsed).field_name.t # "str" THEN ""
             ELSE IF Head(parsed).field_name.s \in DOMAIN kwargs
             THEN PyStrOf(kwargs[Head(parsed).field_name.s]) ELSE "")
         \o LenientRender(Tail(parsed), kwargs)

\* C4 (as claimed): with a log format that has a placeholder naming none of
\* the seven fields (and no '.', '[', '('), rendering does not raise: the
\* placeholder renders as the empty string and the event is delivered.
C4_UnknownFieldRendersEmpty ==
    (/\ CustomFormat /\ HasUnknownField(conf.log_fmt.s) /\ NotIgnored
     /\ outcome.started /\ FactsWellFormed(outcome.ev.result))
    => /\ outcome.called
       /\ SentLine.d["line"] =
            PyS(Strip(LenientRender(Parsed[conf.log_fmt.s],
                    [status |-> PyS(outcome.status), host |-> PyS(outcome.ev.host),
                     name |-> Get(outcome.ev.task_fields, "name", PyS(""))])))

\* C5 (as claimed): an event that is not ignored, whose task was started and
\* whose line renders, is delivered, with the timestamp facts -> date_time
\* -> iso8601 of the payload when present and the current UTC time in every
\* other case.
C5_TimestampPrecedence ==
    (NotIgnored /\ outcome.started /\ ~CustomFormat)
    => /\ outcome.called
       /\ SentLine.d["timestamp"] =
            (IF HasFactsTime(outcome.ev.result) THEN FactsTimeOf(outcome.ev.result)
             ELSE PyS(IsoFormat(outcome.at)))

RECURSIVE NoEmptyValues(_)
\* no empty string, empty mapping, empty sequence or null at any depth
NoEmptyValues(v) ==
    CASE v.t = "None" -> FALSE
      [] v.t = "str"  -> v.s # ""
      [] v.t = "list" -> Len(v.l) > 0 /\ \A k \in 1..Len(v.l) : NoEmptyValues(v.l[k])
      [] v.t = "dict" -> DOMAIN v.d # {} /\ \A k \in DOMAIN v.d : NoEmptyValues(v.d[k])
      [] OTHER        -> TRUE

\* C6: the metadata mapping of every outbound record holds no empty string,
\* empty mapping, empty sequence or null at any nesting depth.
C6_MetaHasNoEmptyValues == outcome.called => NoEmptyValues(SentMeta)

\* a record went out for a payload whose nested list lost all but one member
C6_Witness ==
    /\ outcome.called
    /\ "results" \in DOMAIN outcome.ev.result.d
    /\ Len(outcome.ev.result.d["results"].l) = 5
    /\ SentMeta.d["ansible_result"].d["results"] = PyL(<<PyD([item |-> PyS("a")])>>)
    /\ "args" \notin DOMAIN SentMeta.d["ansible_task"].d

\* C7 (as claimed): the hostname parameter is the target host of the event
\* when use-target-host-for-hostname is set, whatever logdna_hostname holds,
\* and the local hostname when it is not set.
C7_HostnameParameter ==
    outcome.called =>
        SentHostname = (IF Truthy(opts["logdna_use_target_host_for_hostname"])
                        THEN PyS(outcome.ev.host)
                        ELSE PyS(get_local_hostname(SysName)))

\* what an address override contributes to the record: nothing for the
\* disable sentinel, the detected address when unset, else the given one
AddressKeyOk(option, key, detected) ==
    IF opts[option] = PyS("disabled") THEN key \notin DOMAIN SentLine.d
    ELSE /\ key \in DOMAIN SentLine.d
         /\ SentLine.d[key] = (IF opts[option] = PyNone THEN PyS(detected) ELSE opts[option])

\* C8: with the "disabled" sentinel as MAC (IP) override no outbound record
\* has a 'mac' ('ip') key; with the option unset or an explicit address the
\* key carries the autodetected or the given value.
C8_AddressOverrides ==
    outcome.called =>
        /\ AddressKeyOk("logdna_mac_address", "mac", get_hwaddr(SysNode))
        /\ AddressKeyOk("logdna_ip_address", "ip", get_ipaddr(net))

C8_Witness ==
    /\ outcome.called
    /\ opts["logdna_mac_address"] = PyS("disabled")
    /\ opts["logdna_ip_address"] = PyS("10.1.2.3")
    /\ "mac" \notin DOMAIN SentLine.d
    /\ SentLine.d["ip"] = PyS("10.1.2.3")

\* C9 (as claimed): the only errors that escape the handling of an event are
\* the format error and the delivery error.
C9_OnlyFormatAndDeliveryErrors == outcome.err \in {NoError, FormatError, DeliveryError}

\* C10 (as claimed): with the default template the line of every delivered
\* event is 'status=.. action=.. changed=.. play=.. role=.. host=.. name=..'
\* carrying the event's own values, changed being True or False as the flag.
C10_DefaultLine ==
    (outcome.called /\ ~CustomFormat)
    => SentLine.d["line"] =
         PyS("status=" \o outcome.status
             \o " action=" \o PyStrOf(Get(outcome.ev.task_fields, "action", PyNone))
             \o " changed=" \o PyStrOf(Get(outcome.ev.result, "changed", PyNone))
             \o " play=" \o outcome.play
             \o " role=" \o PyStrOf(outcome.ev.role)
             \o " host=" \o outcome.ev.host
             \o " name=" \o PyStrOf(Get(outcome.ev.task_fields, "name", PyS(""))))

\* the last terminal event matches an ignore-list as _handle_event tests
\* them: action, role object, playbook, lower-cased status
IgnoreListMatch ==
    \/ In(Get(outcome.ev.task_fields, "action", PyNone), conf.ignore_actions)
    \/ In(outcome.ev.role, conf.ignore_roles)
    \/ In(PyS(outcome.play), conf.ignore_plays)
    \/ In(PyS(Lower(outcome.status)), conf.ignore_statuses)

\* a step that handles a terminal event leaves the start-time map as it was
TerminalEventKeepsStartTimes ==
    outcome'.kind # "none" => start_datetimes' = start_datetimes

\* C11 (as claimed): a terminal event whose task has no start time recorded
\* ends in an error and issues no HTTP POST, whether or not it matches an
\* ignore-list; no terminal event changes the start-time map.
C11_UnstartedEventRaises ==
    /\ []((Handled /\ ~outcome.started) => (outcome.err # NoError /\ ~outcome.called))
    /\ [][TerminalEventKeepsStartTimes]_vars

\* C11 (amended): a terminal event whose task has no start time recorded
\* issues no HTTP POST; it ends in the KeyError of the start-time lookup
\* when it matches no ignore-list as the handler tests them, and returns
\* without error when it matches one; no terminal event changes the
\* start-time map.
C11_UnstartedEventRaisesUnlessIgnored ==
    /\ []((Handled /\ ~outcome.started) =>
            /\ ~outcome.called
            /\ outcome.err = (IF IgnoreListMatch THEN NoError ELSE "KeyError"))
    /\ [][TerminalEventKeepsStartTimes]_vars

\* an event of a task never started raised KeyError while the start time of
\* another task stayed recorded
C11_Witness ==
    /\ Handled /\ ~outcome.started /\ ~IgnoreListMatch
    /\ outcome.err = "KeyError" /\ ~outcome.called
    /\ outcome.ev.uuid \notin DOMAIN start_datetimes
    /\ start_datetimes # <<>>

\* the check-mode flag and the version of the task arguments of an event
OwnCheckMode(ev) ==
    Truthy(Get(Get(ev.task_fields, "args", PyD(<<>>)), "_ansible_check_mode", PyNone))

OwnVersion(ev) == Get(Get(ev.task_fields, "args", PyD(<<>>)), "_ansible_version", PyNone)

\* the last terminal event got as far as send_logdna
Observed == outcome.kind \in {"raised", "sent"} /\ outcome.started

\* one step of the session state: the flag and the version are never taken
\* back, the version changes only to the one an event brings, and a record
\* sent carries the flag if it was set or the event sets it, and the version
\* of the event or else the one kept
StickyStep ==
    /\ cb.ansible_check_mode => cb'.ansible_check_mode
    /\ cb.ansible_version # PyS("") => cb'.ansible_version # PyS("")
    /\ cb'.ansible_version # cb.ansible_version =>
          (Observed' /\ cb'.ansible_version = OwnVersion(outcome'.ev))
    /\ (Observed' /\ Truthy(OwnVersion(outcome'.ev))) =>
          cb'.ansible_version = OwnVersion(outcome'.ev)
    /\ (Observed' /\ OwnCheckMode(outcome'.ev)) => cb'.ansible_check_mode
    /\ outcome'.called =>
          /\ (cb.ansible_check_mode \/ OwnCheckMode(outcome'.ev)) =>
                Get(SentMeta', "ansible_check_mode", PyNone) = PyB(TRUE)
          /\ Get(SentMeta', "ansible_version", PyS("")) =
                (IF Truthy(OwnVersion(outcome'.ev)) THEN OwnVersion(outcome'.ev)
                 ELSE cb.ansible_version)

\* C12: check mode and engine version are sticky: once an event's task
\* arguments carried a true check-mode flag every later record sent has
\* check mode true, every record sent carries the most recently observed
\* version, and neither value is ever reset to its initial value.
C12_StickyCheckModeAndVersion == [][StickyStep]_vars

\* a record of a task without the flag and without a version went out with
\* check mode true and the version the third task brought
C12_Witness ==
    /\ outcome.called
    /\ ~OwnCheckMode(outcome.ev)
    /\ ~Truthy(OwnVersion(outcome.ev))
    /\ Get(SentMeta, "ansible_check_mode", PyNone) = PyB(TRUE)
    /\ Get(SentMeta, "ansible_version", PyNone) = PyS("2.10.0")

====
